---- MODULE Spec2Model ----
(***************************************************************************)
(* Model of get_bucket_list.py: one run of main(opt).                      *)
(*                                                                         *)
(* A Python str is a sequence of tokens; a token is one punctuation        *)
(* character (",", "|", " ", "'", "[", "]") or a run of other characters.  *)
(* Every concatenation the script performs puts punctuation between the    *)
(* runs, so equality of token sequences is equality of the strings.        *)
(***************************************************************************)
EXTENDS Integers, Sequences, FiniteSets, TLC

\* ---------------------------------------------------------------- bounds
MaxBuckets == 2

\* ------------------------------------------------------------ Python values
\* None returned by a function that falls off its end / by the except branch
PyNone == [tag |-> "None", v |-> <<>>]
PyList(rows) == [tag |-> "list", v |-> rows]

\* a main that writes the report without testing the returned value
Truthy_Always(x) == TRUE

\* bool(x) as used by `if bucket_list:` : None and [] are falsy
Truthy(x) == x.tag = "list" /\ Len(x.v) > 0

\* LocationConstraint of a bucket in the default region is None
LocationNone == <<"<None>">>

NotAvailable == <<"Not", " ", "available">>

\* ------------------------------------------------------------ string helpers
\* sep.join(parts)
RECURSIVE Join(_, _)
Join(sep, parts) ==
    IF parts = <<>> THEN <<>>
    ELSE IF Len(parts) = 1 THEN parts[1]
    ELSE parts[1] \o sep \o Join(sep, Tail(parts))

\* repr() of a str without quote characters inside
PyReprStr(s) == <<"'">> \o s \o <<"'">>

\* str() of a list of str:  ['a', 'b']
PyStrList(l) ==
    <<"[">> \o Join(<<",", " ">>, [k \in 1..Len(l) |-> PyReprStr(l[k])]) \o <<"]">>

\* ------------------------------------------------------------ the AWS account
BucketName(k) == <<"bucket", ToString(k)>>
OwnerId == <<"owner-id">>

Regions == { <<"eu-central-1">>, LocationNone }

\* pages of list_account_aliases: each page's 'AccountAliases' list
\* (aliases a and b in one page, or one per page)
AliasPages == { << <<<<"a">>, <<"b">>>> >>,
                << <<<<"a">>>>, <<<<"b">>>> >> }

\* responses of list_bucket_analytics_configurations
AnalyticsResponses == { [hasKey |-> FALSE, list |-> <<>>],
                        [hasKey |-> TRUE,  list |-> <<>>],
                        [hasKey |-> TRUE,  list |-> <<"cfg1">>] }

Outcomes == {"ok", "ClientError"}

\* ------------------------------------------------------------ csv.writer
Delimiter == ","
QuoteChar == "|"

HeaderRow == << <<"Account", " ", "ID">>,
                <<"Account", " ", "Aliases">>,
                <<"S3", " ", "Bucket", " ", "Name">>,
                <<"S3", " ", "Bucket", " ", "Region">>,
                <<"Analytics">> >>

\* QUOTE_MINIMAL: a field is quoted when it holds the delimiter, the quote
\* character or a line terminator
NeedsQuote(f) == \E k \in 1..Len(f) : f[k] \in {Delimiter, QuoteChar, "\n", "\r"}

\* doublequote=True: the quote character is doubled inside a quoted field
RECURSIVE DoubleQuotes(_)
DoubleQuotes(f) ==
    IF f = <<>> THEN <<>>
    ELSE (IF Head(f) = QuoteChar THEN <<QuoteChar, QuoteChar>> ELSE <<Head(f)>>)
         \o DoubleQuotes(Tail(f))

\* None is written as the empty string
CsvField(f) ==
    IF f = LocationNone THEN <<>>
    ELSE IF NeedsQuote(f) THEN <<QuoteChar>> \o DoubleQuotes(f) \o <<QuoteChar>>
    ELSE f

\* writer.writerow(row): one line of the file
CsvLine(row) == Join(<<Delimiter>>, [k \in 1..Len(row) |-> CsvField(row[k])])

\* ------------------------------------------------------------ helpers of the script
\* get_acc_aliases, success path: ' '.join([str(alias) for alias in aliases])
JoinAliases(pages) == Join(<<" ">>, [k \in 1..Len(pages) |-> PyStrList(pages[k])])

\* a get_acc_aliases whose except branch returns an empty string
AliasesOnClientError_Empty == <<>>

\* get_acc_aliases, except ClientError
AliasesOnClientError == NotAvailable

\* is_analytics_enabled: True when the key is in the response, else None
is_analytics_enabled(resp) == resp.hasKey

\* 'Y' if is_analytics_enabled(bucket.name) else 'N'
AnalyticsFlag(resp) == IF is_analytics_enabled(resp) THEN <<"Y">> ELSE <<"N">>

\* an except branch that returns the rows collected before the failure
ExceptReturn_Partial(rows) == PyList(rows)

\* value of get_formated_buckets_list() when its except branch ran
ExceptReturn(rows) == PyNone

\* buckets_list.insert(0, row) in place of append
AppendRow_Front(rows, row) == <<row>> \o rows

\* buckets_list.append(row)
AppendRow(rows, row) == Append(rows, row)

\* ------------------------------------------------------------ state
VARIABLES
    pc,            \* position of the run
    buckets,       \* the bucket names the listing returned
    i,             \* index of the bucket being enriched
    cur,           \* the fields of the row under construction
    buckets_list,  \* get_formated_buckets_list: rows collected so far
    bucket_list,   \* main: value returned by get_formated_buckets_list
    j,             \* main: index of the next row to write
    fileExists,    \* output.csv exists
    csvfile,       \* output.csv: its lines
    preExists,     \* output.csv existed before the run
    preFile,       \* output.csv before the run
    printed,       \* number of error messages printed
    exc,           \* uncaught exception that ended the run, or "none"
    log            \* API calls made, in order, with their outcomes

vars == <<pc, buckets, i, cur, buckets_list, bucket_list, j, fileExists, csvfile,
          preExists, preFile, printed, exc, log>>

OldContent == << <<"old", " ", "report">> >>

Call(op, idx, err, val) == [op |-> op, i |-> idx, err |-> err, val |-> val]

Init ==
    /\ pc = "list"
    /\ buckets = <<>>
    /\ i = 1
    /\ cur = <<>>
    /\ buckets_list = <<>>
    /\ bucket_list = PyNone
    /\ j = 1
    /\ preExists \in BOOLEAN
    /\ preFile = IF preExists THEN OldContent ELSE <<>>
    /\ fileExists = preExists
    /\ csvfile = preFile
    /\ printed = 0
    /\ exc = "none"
    /\ log = <<>>

\* an except branch that prints and lets the failed call be made again
Except_Retry ==
    /\ printed' = printed + 1
    /\ IF printed < 2
       THEN UNCHANGED <<bucket_list, pc>>
       ELSE bucket_list' = PyNone /\ pc' = "main"

\* except ClientError as err: print(...); the function returns None to main
Except ==
    /\ printed' = printed + 1
    /\ bucket_list' = ExceptReturn(buckets_list)
    /\ pc' = "main"

\* get_client caught a ClientError, printed it and returned None; the caller
\* then calls a method on None: AttributeError, which no handler catches
ClientIsNone ==
    /\ printed' = printed + 1
    /\ exc' = "AttributeError"
    /\ pc' = "crashed"

\* boto3.resource('s3', ...).buckets.all() and the start of the for loop
ListBuckets ==
    /\ pc = "list"
    /\ \E out \in Outcomes :
         IF out = "ok"
         THEN \E n \in 0..MaxBuckets :
                /\ buckets' = [k \in 1..n |-> BucketName(k)]
                /\ log' = Append(log, Call("list_buckets", 0, "none", n))
                /\ pc' = IF n = 0 THEN "return" ELSE "acl"
                /\ UNCHANGED <<printed, bucket_list>>
         ELSE /\ log' = Append(log, Call("list_buckets", 0, out, 0))
              /\ Except
              /\ UNCHANGED buckets
    /\ UNCHANGED <<i, cur, buckets_list, j, fileExists, csvfile, preExists, preFile, exc>>

\* bucket.Acl().owner['ID']
BucketAcl ==
    /\ pc = "acl"
    /\ \E out \in Outcomes :
         IF out = "ok"
         THEN /\ log' = Append(log, Call("get_bucket_acl", i, "none", OwnerId))
              /\ cur' = <<OwnerId>>
              /\ pc' = "aliases"
              /\ UNCHANGED <<printed, bucket_list>>
         ELSE /\ log' = Append(log, Call("get_bucket_acl", i, out, <<>>))
              /\ Except
              /\ UNCHANGED cur
    /\ UNCHANGED <<buckets, i, buckets_list, j, fileExists, csvfile, preExists, preFile, exc>>

\* get_acc_aliases()
GetAccAliases ==
    /\ pc = "aliases"
    /\ \E client \in Outcomes :
         IF client = "ok"
         THEN \E out \in Outcomes :
                /\ IF out = "ok"
                   THEN \E pages \in AliasPages :
                          /\ log' = Append(log, Call("list_account_aliases", i, "none", pages))
                          /\ cur' = Append(cur, JoinAliases(pages))
                   ELSE /\ log' = Append(log, Call("list_account_aliases", i, out, <<>>))
                        /\ cur' = Append(cur, AliasesOnClientError)
                /\ pc' = "region"
                /\ UNCHANGED <<printed, exc>>
         ELSE /\ ClientIsNone
              /\ UNCHANGED <<log, cur>>
    /\ UNCHANGED <<buckets, i, buckets_list, bucket_list, j, fileExists, csvfile,
                   preExists, preFile>>

\* bucket.name, get_s3_bucket_region(bucket.name)
GetS3BucketRegion ==
    /\ pc = "region"
    /\ \E client \in Outcomes :
         IF client = "ok"
         THEN \E out \in Outcomes :
                IF out = "ok"
                THEN \E r \in Regions :
                       /\ log' = Append(log, Call("get_bucket_location", i, "none", r))
                       /\ cur' = cur \o <<buckets[i], r>>
                       /\ pc' = "analytics"
                       /\ UNCHANGED <<printed, bucket_list, exc>>
                ELSE /\ log' = Append(log, Call("get_bucket_location", i, out, <<>>))
                     /\ Except
                     /\ UNCHANGED <<cur, exc>>
         ELSE /\ ClientIsNone
              /\ UNCHANGED <<log, cur, bucket_list>>
    /\ UNCHANGED <<buckets, i, buckets_list, j, fileExists, csvfile, preExists, preFile>>

\* 'Y' if is_analytics_enabled(bucket.name) else 'N'; buckets_list.append([...])
IsAnalyticsEnabled ==
    /\ pc = "analytics"
    /\ \E client \in Outcomes :
         IF client = "ok"
         THEN \E out \in Outcomes :
                IF out = "ok"
                THEN \E resp \in AnalyticsResponses :
                       /\ log' = Append(log, Call("list_bucket_analytics_configurations",
                                                  i, "none", resp))
                       /\ buckets_list' = AppendRow(buckets_list,
                                                    Append(cur, AnalyticsFlag(resp)))
                       /\ cur' = <<>>
                       /\ i' = i + 1
                       /\ pc' = IF i = Len(buckets) THEN "return" ELSE "acl"
                       /\ UNCHANGED <<printed, bucket_list, exc>>
                ELSE /\ log' = Append(log, Call("list_bucket_analytics_configurations",
                                                i, out, <<>>))
                     /\ Except
                     /\ UNCHANGED <<cur, i, buckets_list, exc>>
         ELSE /\ ClientIsNone
              /\ UNCHANGED <<log, cur, i, buckets_list, bucket_list>>
    /\ UNCHANGED <<buckets, j, fileExists, csvfile, preExists, preFile>>

\* return buckets_list
ReturnList ==
    /\ pc = "return"
    /\ bucket_list' = PyList(buckets_list)
    /\ pc' = "main"
    /\ UNCHANGED <<buckets, i, cur, buckets_list, j, fileExists, csvfile, preExists,
                   preFile, printed, exc, log>>

\* if bucket_list:
MainIf ==
    /\ pc = "main"
    /\ pc' = IF Truthy(bucket_list) THEN "open" ELSE "done"
    /\ UNCHANGED <<buckets, i, cur, buckets_list, bucket_list, j, fileExists, csvfile,
                   preExists, preFile, printed, exc, log>>

\* open('output.csv', 'w'): creates or truncates the file
OpenFile ==
    /\ pc = "open"
    /\ fileExists' = TRUE
    /\ csvfile' = <<>>
    /\ log' = Append(log, Call("open", 0, "none", <<>>))
    /\ pc' = "header"
    /\ UNCHANGED <<buckets, i, cur, buckets_list, bucket_list, j, preExists, preFile,
                   printed, exc>>

\* writer.writerow(['Account ID', ...])
WriteHeader ==
    /\ pc = "header"
    /\ csvfile' = Append(csvfile, CsvLine(HeaderRow))
    /\ j' = 1
    /\ pc' = "rows"
    /\ UNCHANGED <<buckets, i, cur, buckets_list, bucket_list, fileExists, preExists,
                   preFile, printed, exc, log>>

\* for bucket_data in bucket_list: writer.writerow(bucket_data)
WriteRow ==
    /\ pc = "rows"
    /\ j <= Len(bucket_list.v)
    /\ csvfile' = Append(csvfile, CsvLine(bucket_list.v[j]))
    /\ j' = j + 1
    /\ UNCHANGED <<pc, buckets, i, cur, buckets_list, bucket_list, fileExists, preExists,
                   preFile, printed, exc, log>>

\* end of the with block: the file is closed and main returns
CloseFile ==
    /\ pc = "rows"
    /\ j > Len(bucket_list.v)
    /\ pc' = "done"
    /\ UNCHANGED <<buckets, i, cur, buckets_list, bucket_list, j, fileExists, csvfile,
                   preExists, preFile, printed, exc, log>>

Next ==
    \/ ListBuckets
    \/ BucketAcl
    \/ GetAccAliases
    \/ GetS3BucketRegion
    \/ IsAnalyticsEnabled
    \/ ReturnList
    \/ MainIf
    \/ OpenFile
    \/ WriteHeader
    \/ WriteRow
    \/ CloseFile

Spec == Init /\ [][Next]_vars

\* the interpreter always takes the next step of a single-threaded script
FairSpec == Spec /\ WF_vars(Next)

\* ====================================================================
\* Properties
\* ====================================================================

\* csv.reader of the dialect the file is written with (delimiter ',',
\* quotechar '|', doublequote): the fields of one line
RECURSIVE ParseCsv(_, _, _, _)
ParseCsv(rest, field, inq, acc) ==
    IF rest = <<>> THEN Append(acc, field)
    ELSE LET c == Head(rest) IN
         IF inq
         THEN IF c = QuoteChar
              THEN IF Len(rest) >= 2 /\ rest[2] = QuoteChar
                   THEN ParseCsv(Tail(Tail(rest)), Append(field, QuoteChar), TRUE, acc)
                   ELSE ParseCsv(Tail(rest), field, FALSE, acc)
              ELSE ParseCsv(Tail(rest), Append(field, c), TRUE, acc)
         ELSE IF c = QuoteChar /\ field = <<>>
              THEN ParseCsv(Tail(rest), field, TRUE, acc)
              ELSE IF c = Delimiter
                   THEN ParseCsv(Tail(rest), <<>>, FALSE, Append(acc, field))
                   ELSE ParseCsv(Tail(rest), Append(field, c), FALSE, acc)

Fields(line) == ParseCsv(line, <<>>, FALSE, <<>>)

\* the elements of a list of lists, in order
RECURSIVE Concat(_)
Concat(ss) == IF ss = <<>> THEN <<>> ELSE Head(ss) \o Concat(Tail(ss))

\* the header line as the documentation gives it
HeaderLine == <<"Account", " ", "ID", ",", "Account", " ", "Aliases", ",",
                "S3", " ", "Bucket", " ", "Name", ",",
                "S3", " ", "Bucket", " ", "Region", ",", "Analytics">>

Terminated == pc \in {"done", "crashed"}

\* the run opened output.csv for writing
Written == \E p \in 1..Len(log) : log[p].op = "open"

ApiOps == {"list_buckets", "get_bucket_acl", "list_account_aliases",
           "get_bucket_location", "list_bucket_analytics_configurations"}

ApiCalls == SelectSeq(log, LAMBDA e : e.op \in ApiOps)

\* no API call and no client creation failed
NoFailure ==
    /\ exc = "none"
    /\ printed = 0
    /\ \A p \in 1..Len(log) : log[p].err = "none"

\* the log entry of call op for the k-th bucket
HasCall(op, k) == \E p \in 1..Len(log) : log[p].op = op /\ log[p].i = k
CallOf(op, k) == log[CHOOSE p \in 1..Len(log) : log[p].op = op /\ log[p].i = k]

\* the data rows this run wrote to output.csv
DataRows == IF Written /\ Len(csvfile) >= 1 THEN Tail(csvfile) ELSE <<>>

\* C1: in a run without a failed call the data rows written to output.csv are
\* the listed buckets, one row per bucket, in listing order, each row carrying
\* its bucket's name
C1_RowsMatchListing ==
    (pc = "done" /\ NoFailure) =>
        /\ Len(DataRows) = Len(buckets)
        /\ \A k \in 1..Len(DataRows) : Fields(DataRows[k])[3] = buckets[k]

C1_Witness ==
    /\ pc = "done" /\ NoFailure /\ Written
    /\ Len(buckets) >= 2
    /\ Len(DataRows) = Len(buckets)

\* C2: the Analytics field of a row is 'Y' exactly when the analytics
\* configuration list returned for its bucket is non-empty
C2_AnalyticsIffNonEmpty ==
    (pc = "done" /\ Written) =>
        \A k \in 1..Len(DataRows) :
            (Fields(DataRows[k])[5] = <<"Y">>)
              <=> (CallOf("list_bucket_analytics_configurations", k).val.list # <<>>)

\* C4: a run without a failed call, for any number of buckets including zero,
\* ends with output.csv written, its first line the documented header and
\* every other line of five fields
C4_HeaderAlwaysWritten ==
    (pc = "done" /\ NoFailure) =>
        /\ Written
        /\ fileExists
        /\ Len(csvfile) >= 1
        /\ csvfile[1] = HeaderLine
        /\ \A k \in 2..Len(csvfile) : Len(Fields(csvfile[k])) = 5

\* C6: when the alias listing succeeded the Account Aliases field is the alias
\* names of all pages joined by single spaces, without decoration
C6_AliasesPlainJoined ==
    (pc = "done" /\ Written) =>
        \A k \in 1..Len(DataRows) :
            CallOf("list_account_aliases", k).err = "none" =>
                Fields(DataRows[k])[2]
                  = Join(<<" ">>, Concat(CallOf("list_account_aliases", k).val))

\* a credential or API error was raised somewhere in the run
AnyError == exc # "none" \/ \E p \in 1..Len(log) : log[p].err # "none"

\* C3: every error of the run is caught and printed, the formatter returns a
\* falsy value, no report is written and no exception escapes
C3_ErrorsCaughtNoWrite ==
    (Terminated /\ AnyError) =>
        /\ exc = "none"
        /\ printed >= 1
        /\ ~Truthy(bucket_list)
        /\ ~Written

PerBucketOps == <<"get_bucket_acl", "list_account_aliases",
                  "get_bucket_location", "list_bucket_analytics_configurations">>

CountCalls(op, k) == Cardinality({p \in 1..Len(log) : log[p].op = op /\ log[p].i = k})

CallsBounded ==
    /\ CountCalls("list_buckets", 0) <= 1
    /\ \A q \in 1..Len(PerBucketOps) : \A k \in 1..Len(buckets) :
           CountCalls(PerBucketOps[q], k) <= 1
    /\ \A p \in 1..Len(ApiCalls) :
           ApiCalls[p].op # "list_buckets" => ApiCalls[p].i \in 1..Len(buckets)
    /\ Len(ApiCalls) <= 1 + 4 * Len(buckets)

\* C5: every run terminates, having made at most one bucket listing and, per
\* listed bucket, at most one call of each of the four lookups
C5_TerminatesBoundedCalls == <>Terminated /\ []CallsBounded

C5_Witness ==
    /\ Terminated
    /\ Len(buckets) >= 2
    /\ Len(ApiCalls) = 1 + 4 * Len(buckets)

AliasFailed(k) ==
    /\ HasCall("list_account_aliases", k)
    /\ CallOf("list_account_aliases", k).err # "none"

\* every call but the alias listings succeeded
OthersOk ==
    /\ exc = "none"
    /\ \A p \in 1..Len(log) : log[p].op # "list_account_aliases" => log[p].err = "none"

\* C7: a client error of the alias listing, all other calls succeeding, does
\* not abort the run: the row holds 'Not available' and the report is
\* written with one row per bucket
C7_AliasFailureTolerated ==
    (OthersOk /\ \E k \in 1..Len(buckets) : AliasFailed(k)) =>
        /\ pc # "crashed"
        /\ pc = "main" => Truthy(bucket_list)
        /\ pc = "done" =>
             /\ Written
             /\ Len(DataRows) = Len(buckets)
             /\ \A k \in 1..Len(buckets) :
                    AliasFailed(k) => Fields(DataRows[k])[2] = NotAvailable

C7_Witness ==
    /\ pc = "done" /\ OthersOk /\ Written
    /\ \E k \in 1..Len(buckets) : AliasFailed(k)

\* the API calls happen in the order: listing, then for bucket 1, 2, ... the
\* owner, alias, location and analytics lookups
OrderOK ==
    \A p \in 1..Len(ApiCalls) :
        IF p = 1 THEN ApiCalls[p].op = "list_buckets"
        ELSE /\ ApiCalls[p].op = PerBucketOps[((p - 2) % 4) + 1]
             /\ ApiCalls[p].i = ((p - 2) \div 4) + 1

\* once the file is opened no further call is made
OpenLast == \A p \in 1..Len(log) : log[p].op = "open" => p = Len(log)

AllSubQueriesDone == Len(ApiCalls) = 1 + 4 * Len(buckets)

Untouched == fileExists = preExists /\ csvfile = preFile

FullReport ==
    /\ fileExists
    /\ Len(csvfile) = Len(buckets) + 1
    /\ csvfile[1] = HeaderLine
    /\ \A k \in 1..Len(buckets) :
           /\ Len(Fields(csvfile[k + 1])) = 5
           /\ Fields(csvfile[k + 1])[3] = buckets[k]

\* a failure that ends the enrichment
AbortingFailure == ~OthersOk

====
